---- MODULE Spec2Model ----
(***************************************************************************)
(* Deepfake Audio Detector API (app.py): a FastAPI server with a model     *)
(* loaded once at import time, a feature extractor                         *)
(* (audio_to_spectrogram), the POST /predict/ handler (predict_audio) and  *)
(* the GET / handler (root).                                               *)
(*                                                                         *)
(* Numbers.  The model output p is a float in [0,1]; it is kept here as an *)
(* integer count of 1e-5 units (One = 1.0).  A confidence is a percentage  *)
(* rounded to 2 decimals; it is kept as an integer count of 0.01 percent   *)
(* (10000 = 100.00), so one confidence unit is ten p units.  A normalised  *)
(* grid value is the fraction num/den; den = 0 is the float NaN that numpy *)
(* produces for 0/0.                                                       *)
(*                                                                         *)
(* Sizes.  The code fixes the mel rows and the grid side to 128.  The      *)
(* model scales that side down to N_MELS and enumerates every power        *)
(* spectrogram of N_MELS rows and 1..MaxFrames frames over Powers.         *)
(***************************************************************************)
EXTENDS Integers, Sequences, FiniteSets, TLC

VARIABLES
    model,        \* module global `model`: "None" or the loaded model
    running,      \* request that holds the event loop (0: none)
    pc,           \* pc[r]: position of request r in predict_audio
    upload,       \* upload[r]: the UploadFile of request r
    file_bytes,   \* local file_bytes of request r
    spectrogram,  \* local spectrogram of request r
    pred,         \* local pred of request r
    label,        \* local label of request r
    confidence,   \* local confidence of request r
    raised,       \* text of the exception caught at line 109, or NoExc
    response,     \* response sent for request r, or NoResp
    steps,        \* steps[r]: the steps request r has performed, in order
    rootReply,    \* reply of the last GET /, or NoResp
    fpc,          \* feature pipeline: position in audio_to_spectrogram
    fS,           \* feature pipeline: mel power spectrogram S
    fS_DB,        \* feature pipeline: S_DB
    fOut          \* feature pipeline: returned value

vars == <<model, running, pc, upload, file_bytes, spectrogram, pred, label,
          confidence, raised, response, steps, rootReply, fpc, fS, fS_DB, fOut>>

serverVars == <<model, running, pc, upload, file_bytes, spectrogram, pred,
                label, confidence, raised, response, steps, rootReply>>

featVars == <<fpc, fS, fS_DB, fOut>>

----------------------------------------------------------------------------
\* Bounds of the model

N_MELS == 2

MaxFrames == 3

NumReqs == 2

NumWeights == 5

\* Program constants

TopDb == 80

Half == 50000

One == 100000

Percent == 100

Digits == 2

Powers == {0, 1, 10}

\* Python None (also the value of a local not yet assigned)
None == <<>>

\* The float NaN, kept apart from every p and every confidence
NaN == 0 - 1

----------------------------------------------------------------------------
\* Feature extractor: audio_to_spectrogram

Rows == 0 .. (N_MELS - 1)

Frames(S) == Cardinality(DOMAIN S[0])

SetMax(X) == CHOOSE x \in X : \A y \in X : y <= x

SetMin(X) == CHOOSE x \in X : \A y \in X : x <= y

Values(A) == { A[i][j] : i \in DOMAIN A, j \in DOMAIN A[0] }

\* 10 * log10(max(amin, p)) with librosa's amin = 1e-10
TenLog10(p) ==
    CASE p = 0 -> -100
      [] p = 1 -> 0
      [] p = 10 -> 10

\* librosa.power_to_db(S, ref=np.max), top_db = 80
power_to_db(S) ==
    LET ref == SetMax(Values(S))
        log_spec == [i \in DOMAIN S |->
                        [j \in DOMAIN S[0] |-> TenLog10(S[i][j]) - TenLog10(ref)]]
        floor == SetMax(Values(log_spec)) - TopDb
    IN  [i \in DOMAIN S |->
            [j \in DOMAIN S[0] |->
                IF log_spec[i][j] < floor THEN floor ELSE log_spec[i][j]]]

\* np.resize(a, (N_MELS, N_MELS)): position in a of entry (i, j) of the result.
\* The array is flattened row by row and repeated or cut to the new size.
ResizeSource(T, i, j) ==
    LET k == (i * N_MELS + j) % (N_MELS * T)
    IN  <<k \div T, k % T>>

resize(a) ==
    [i \in Rows |-> [j \in Rows |->
        LET s == ResizeSource(Frames(a), i, j) IN a[s[1]][s[2]]]]

\* (S_DB - S_DB.min()) / (S_DB.max() - S_DB.min()), elementwise
Normalize(a) ==
    LET lo == SetMin(Values(a))
        hi == SetMax(Values(a))
    IN  [i \in DOMAIN a |-> [j \in DOMAIN a[0] |->
            [num |-> a[i][j] - lo, den |-> hi - lo]]]

IsNaN(v) == v.den = 0

InUnit(v) == v.den > 0 /\ 0 <= v.num /\ v.num <= v.den

\* Bytes are represented by what librosa decodes them to: the mel power
\* spectrogram, or Undecodable when librosa.load / melspectrogram raises.
Undecodable == <<"not audio">>

Spectrograms ==
    UNION { [Rows -> [0 .. (T - 1) -> Powers]] : T \in 1 .. MaxFrames }

audio_to_spectrogram(bytes) ==
    IF bytes = Undecodable
    THEN None
    ELSE Normalize(resize(power_to_db(bytes)))

----------------------------------------------------------------------------
\* Float arithmetic with NaN: a comparison with NaN is false, an operation
\* on NaN is NaN

Lt(a, b) == a # NaN /\ b # NaN /\ a < b

Sub(a, b) == IF a = NaN \/ b = NaN THEN NaN ELSE a - b

Mul(a, b) == IF a = NaN \/ b = NaN THEN NaN ELSE a * b

\* Python round(x, nd) for x in 1e-5 units: the result counts 10^-nd units,
\* ties go to the even neighbour
round(x, nd) ==
    LET d == One \div (10 ^ nd)
        q == x \div d
        rem == x % d
    IN  IF x = NaN THEN NaN
        ELSE IF 2 * rem < d THEN q
        ELSE IF 2 * rem > d THEN q + 1
        ELSE IF q % 2 = 0 THEN q ELSE q + 1

----------------------------------------------------------------------------
\* The model: an external artifact, fixed for the life of the process.
\* A loaded model is a deterministic function of its input tensor.  Three
\* kinds stand for what a saved model can do with a (1, N, N, 1) input:
\*   "scalar": output of shape (1, 1), so predict(x)[0][0] is one float
\*   "map":    output of shape (1, 1, 2), so predict(x)[0][0] is an array
\*   "raises": the forward pass raises (input shape mismatch)

PTable == <<0, 49995, 26000, 74985, 50000, 50005, 49999, 100000>>

Models ==
    [kind : {"scalar"}, w : 0 .. (NumWeights - 1)]
        \cup {[kind |-> "map", w |-> 0], [kind |-> "raises", w |-> 0]}

Reqs == 1 .. NumReqs

\* spectrogram[np.newaxis, ..., np.newaxis]: shape (1, N, N, 1)
AddDims(g) ==
    << [i \in DOMAIN g |-> [j \in DOMAIN g[i] |-> << g[i][j] >>]] >>

HasNaN(x) == \E i \in DOMAIN x[1] : \E j \in DOMAIN x[1][i] : IsNaN(x[1][i][j][1])

\* A normalised value on a scale of 0..3
Quant(v) == (3 * v.num) \div v.den

RECURSIVE Score(_, _)
Score(x, k) ==
    IF k = N_MELS * N_MELS
    THEN 0
    ELSE (k + 1) * Quant(x[1][k \div N_MELS][k % N_MELS][1]) + Score(x, k + 1)

\* The float the forward pass computes for input x
Sigmoid(m, x) ==
    IF HasNaN(x)
    THEN NaN
    ELSE PTable[((m.w + Score(x, 0)) % Len(PTable)) + 1]

PredictRaises(m) == m.kind = "raises"

\* Mutant: a forward pass that depends on the requests answered so far
predictStateful(m, x) ==
    LET n == Cardinality({q \in Reqs : pc[q] = "done"})
        p == IF HasNaN(x) THEN NaN
             ELSE PTable[((m.w + n + Score(x, 0)) % Len(PTable)) + 1]
    IN  IF m.kind = "map" THEN << << << p, p >> >> >> ELSE << << << p >> >> >>

\* model.predict(x): the output tensor, its trailing axes flattened
predict(m, x) ==
    IF m.kind = "map"
    THEN << << << Sigmoid(m, x), Sigmoid(m, x) >> >> >>
    ELSE << << << Sigmoid(m, x) >> >> >>

----------------------------------------------------------------------------
\* Uploads.  An upload whose read() raises is not readable.

Silence == [i \in Rows |-> [j \in 0 .. 0 |-> 0]]

Click == [i \in Rows |-> [j \in 0 .. 0 |-> IF i = 0 THEN 10 ELSE 0]]

Tone == [i \in Rows |-> [j \in Rows |-> IF i = 0 THEN 10 ELSE 1]]

Chirp == [i \in Rows |-> [j \in 0 .. N_MELS |-> IF i = j THEN 10 ELSE 0]]

Uploads ==
    {[readable |-> FALSE, bytes |-> Undecodable]}
        \cup [readable : {TRUE}, bytes : {Undecodable, Silence, Click, Tone, Chirp}]

NoUpload == [readable |-> FALSE, bytes |-> Undecodable]

----------------------------------------------------------------------------
\* Responses

NoExc == ""

NoResp == [status |-> 0, error |-> "", prediction |-> "", confidence |-> 0]

\* JSONResponse(status_code=status, content={"error": text})
ErrorResponse(status, text) ==
    [status |-> status, error |-> text, prediction |-> "", confidence |-> 0]

\* A returned dict {"prediction": ..., "confidence": ...}.  The framework
\* encodes it as JSON with status 200; a NaN is not JSON compliant and the
\* encoder's ValueError, raised outside the handler, is answered with 500.
DictResponse(lab, conf) ==
    IF conf = NaN
    THEN ErrorResponse(500, "Internal Server Error")
    ELSE [status |-> 200, error |-> "", prediction |-> lab, confidence |-> conf]

NoReply == [status |-> 0, message |-> ""]

RootMessage == [status |-> 200, message |-> "Deepfake Audio Detector API is running!"]

----------------------------------------------------------------------------
\* predict_audio, interpret result (lines 97-102)

\* Mutant: the threshold itself counted as HUMAN
LabelInclusive(p) == IF p # NaN /\ p <= Half THEN "HUMAN" ELSE "AI-GENERATED"

Label(p) == IF Lt(p, Half) THEN "HUMAN" ELSE "AI-GENERATED"

\* Mutant: the distance from the threshold instead of the class share
ConfidenceDistance(p) ==
    IF Lt(p, Half) THEN Mul(Sub(Half, p), Percent) ELSE Mul(Sub(p, Half), Percent)

\* Mutant: the HUMAN branch reports p instead of 1 - p
ConfidenceOfAI(p) == Mul(p, Percent)

Confidence(p) ==
    IF Lt(p, Half) THEN Mul(Sub(One, p), Percent) ELSE Mul(p, Percent)

\* bool(pred < 0.5) raises for an array of more than one element
Ambiguous(pr) == Len(pr) # 1

----------------------------------------------------------------------------
\* The server

ServerIdle ==
    /\ running = 0
    /\ pc = [r \in Reqs |-> "idle"]
    /\ upload = [r \in Reqs |-> NoUpload]
    /\ file_bytes = [r \in Reqs |-> None]
    /\ spectrogram = [r \in Reqs |-> None]
    /\ pred = [r \in Reqs |-> None]
    /\ label = [r \in Reqs |-> ""]
    /\ confidence = [r \in Reqs |-> 0]
    /\ raised = [r \in Reqs |-> NoExc]
    /\ response = [r \in Reqs |-> NoResp]
    /\ steps = [r \in Reqs |-> <<>>]
    /\ rootReply = NoReply

FeatIdle ==
    /\ fpc = "off"
    /\ fS = None
    /\ fS_DB = None
    /\ fOut = None

\* Lines 41-47: load_model either returns the model or raises
LoadModel == model \in Models \cup {None}

Init ==
    /\ LoadModel
    /\ ServerIdle
    /\ FeatIdle

Finish(r, resp) ==
    /\ response' = [response EXCEPT ![r] = resp]
    /\ steps' = [steps EXCEPT ![r] = Append(@, "respond")]
    /\ pc' = [pc EXCEPT ![r] = "done"]
    /\ running' = 0

\* A POST /predict/ request arrives
Arrive(r, u) ==
    /\ pc[r] \in {"idle", "done"}
    /\ pc' = [pc EXCEPT ![r] = "entry"]
    /\ upload' = [upload EXCEPT ![r] = u]
    /\ file_bytes' = [file_bytes EXCEPT ![r] = None]
    /\ spectrogram' = [spectrogram EXCEPT ![r] = None]
    /\ pred' = [pred EXCEPT ![r] = None]
    /\ label' = [label EXCEPT ![r] = ""]
    /\ confidence' = [confidence EXCEPT ![r] = 0]
    /\ raised' = [raised EXCEPT ![r] = NoExc]
    /\ response' = [response EXCEPT ![r] = NoResp]
    /\ steps' = [steps EXCEPT ![r] = <<>>]
    /\ UNCHANGED <<model, running, rootReply, featVars>>

\* Mutant: the handler without the `model is None` test
CheckModelNoGuard(r) ==
    /\ pc[r] = "entry"
    /\ running = 0
    /\ pc' = [pc EXCEPT ![r] = "read"]
    /\ UNCHANGED <<model, running, upload, file_bytes, spectrogram, pred, label,
                   confidence, raised, response, steps, rootReply, featVars>>

\* Lines 78-79, up to the await of line 83
CheckModel(r) ==
    /\ pc[r] = "entry"
    /\ running = 0
    /\ IF model = None
       THEN Finish(r, ErrorResponse(500, "Model not loaded on server."))
       ELSE /\ pc' = [pc EXCEPT ![r] = "read"]
            /\ UNCHANGED <<running, response, steps>>
    /\ UNCHANGED <<model, upload, file_bytes, spectrogram, pred, label,
                   confidence, raised, rootReply, featVars>>

\* Line 83: the await returns (or raises); the handler then runs to its end
\* without yielding the event loop
ReadUpload(r) ==
    /\ pc[r] = "read"
    /\ running = 0
    /\ running' = r
    /\ steps' = [steps EXCEPT ![r] = Append(@, "read")]
    /\ IF upload[r].readable
       THEN /\ file_bytes' = [file_bytes EXCEPT ![r] = upload[r].bytes]
            /\ pc' = [pc EXCEPT ![r] = "transform"]
            /\ UNCHANGED raised
       ELSE /\ raised' = [raised EXCEPT ![r] = "read failed"]
            /\ pc' = [pc EXCEPT ![r] = "except"]
            /\ UNCHANGED file_bytes
    /\ UNCHANGED <<model, upload, spectrogram, pred, label, confidence,
                   response, rootReply, featVars>>

\* Lines 86-88
Transform(r) ==
    /\ pc[r] = "transform"
    /\ running = r
    /\ spectrogram' = [spectrogram EXCEPT ![r] = audio_to_spectrogram(file_bytes[r])]
    /\ IF spectrogram'[r] = None
       THEN /\ response' = [response EXCEPT ![r] =
                               ErrorResponse(400, "Could not process audio file.")]
            /\ steps' = [steps EXCEPT ![r] = @ \o <<"transform", "respond">>]
            /\ pc' = [pc EXCEPT ![r] = "done"]
            /\ running' = 0
       ELSE /\ steps' = [steps EXCEPT ![r] = Append(@, "transform")]
            /\ pc' = [pc EXCEPT ![r] = "dims"]
            /\ UNCHANGED <<running, response>>
    /\ UNCHANGED <<model, upload, file_bytes, pred, label, confidence, raised,
                   rootReply, featVars>>

\* Line 91
ExpandDims(r) ==
    /\ pc[r] = "dims"
    /\ running = r
    /\ spectrogram' = [spectrogram EXCEPT ![r] = AddDims(@)]
    /\ pc' = [pc EXCEPT ![r] = "predict"]
    /\ UNCHANGED <<model, running, upload, file_bytes, pred, label, confidence,
                   raised, response, steps, rootReply, featVars>>

\* Mutant: the forward pass run twice (a warm-up call before the real one)
PredictTwice(r) ==
    /\ pc[r] = "predict"
    /\ running = r
    /\ steps' = [steps EXCEPT ![r] = @ \o <<"predict", "predict">>]
    /\ IF PredictRaises(model)
       THEN /\ raised' = [raised EXCEPT ![r] = "predict failed"]
            /\ pc' = [pc EXCEPT ![r] = "except"]
            /\ UNCHANGED pred
       ELSE /\ pred' = [pred EXCEPT ![r] = predict(model, spectrogram[r])[1][1]]
            /\ pc' = [pc EXCEPT ![r] = "threshold"]
            /\ UNCHANGED raised
    /\ UNCHANGED <<model, running, upload, file_bytes, spectrogram, label,
                   confidence, response, rootReply, featVars>>

\* Line 94
Predict(r) ==
    /\ pc[r] = "predict"
    /\ running = r
    /\ steps' = [steps EXCEPT ![r] = Append(@, "predict")]
    /\ IF PredictRaises(model)
       THEN /\ raised' = [raised EXCEPT ![r] = "predict failed"]
            /\ pc' = [pc EXCEPT ![r] = "except"]
            /\ UNCHANGED pred
       ELSE /\ pred' = [pred EXCEPT ![r] = predict(model, spectrogram[r])[1][1]]
            /\ pc' = [pc EXCEPT ![r] = "threshold"]
            /\ UNCHANGED raised
    /\ UNCHANGED <<model, running, upload, file_bytes, spectrogram, label,
                   confidence, response, rootReply, featVars>>

\* Lines 97-102
Threshold(r) ==
    /\ pc[r] = "threshold"
    /\ running = r
    /\ steps' = [steps EXCEPT ![r] = Append(@, "threshold")]
    /\ IF Ambiguous(pred[r])
       THEN /\ raised' = [raised EXCEPT ![r] = "truth value of an array is ambiguous"]
            /\ pc' = [pc EXCEPT ![r] = "except"]
            /\ UNCHANGED <<label, confidence>>
       ELSE /\ label' = [label EXCEPT ![r] = Label(pred[r][1])]
            /\ confidence' = [confidence EXCEPT ![r] = Confidence(pred[r][1])]
            /\ pc' = [pc EXCEPT ![r] = "return"]
            /\ UNCHANGED raised
    /\ UNCHANGED <<model, running, upload, file_bytes, spectrogram, pred,
                   response, rootReply, featVars>>

\* Lines 104-107
Respond(r) ==
    /\ pc[r] = "return"
    /\ running = r
    /\ Finish(r, DictResponse(label[r], round(confidence[r], Digits)))
    /\ UNCHANGED <<model, upload, file_bytes, spectrogram, pred, label,
                   confidence, raised, rootReply, featVars>>

\* Mutant: every caught exception answered as a bad request
ExceptBadRequest(r) ==
    /\ pc[r] = "except"
    /\ running = r
    /\ Finish(r, ErrorResponse(400, raised[r]))
    /\ UNCHANGED <<model, upload, file_bytes, spectrogram, pred, label,
                   confidence, raised, rootReply, featVars>>

\* Lines 109-111
Except(r) ==
    /\ pc[r] = "except"
    /\ running = r
    /\ Finish(r, ErrorResponse(500, raised[r]))
    /\ UNCHANGED <<model, upload, file_bytes, spectrogram, pred, label,
                   confidence, raised, rootReply, featVars>>

\* Mutant: a liveness reply that reports the failed load
rootNeedsModel ==
    /\ rootReply' = IF model = None
                    THEN [status |-> 503, message |-> "Model not loaded on server."]
                    ELSE RootMessage
    /\ UNCHANGED <<model, running, pc, upload, file_bytes, spectrogram, pred,
                   label, confidence, raised, response, steps, featVars>>

\* Lines 117-119: GET /
root ==
    /\ rootReply' = RootMessage
    /\ UNCHANGED <<model, running, pc, upload, file_bytes, spectrogram, pred,
                   label, confidence, raised, response, steps, featVars>>

\* The feature pipeline on its own, one statement per step

FeatInit ==
    /\ fpc = "mel"
    /\ fS \in Spectrograms
    /\ fS_DB = None
    /\ fOut = None
    /\ model = None
    /\ ServerIdle

FeatPowerToDb ==
    /\ fpc = "mel"
    /\ fS_DB' = power_to_db(fS)
    /\ fpc' = "resize"
    /\ UNCHANGED <<fS, fOut, serverVars>>

FeatResize ==
    /\ fpc = "resize"
    /\ fS_DB' = resize(fS_DB)
    /\ fpc' = "normalize"
    /\ UNCHANGED <<fS, fOut, serverVars>>

FeatNormalize ==
    /\ fpc = "normalize"
    /\ fOut' = Normalize(fS_DB)
    /\ fpc' = "return"
    /\ UNCHANGED <<fS, fS_DB, serverVars>>

----------------------------------------------------------------------------
Next ==
    \/ \E r \in Reqs, u \in Uploads : Arrive(r, u)
    \/ \E r \in Reqs : CheckModel(r)
    \/ \E r \in Reqs : ReadUpload(r)
    \/ \E r \in Reqs : Transform(r)
    \/ \E r \in Reqs : ExpandDims(r)
    \/ \E r \in Reqs : Predict(r)
    \/ \E r \in Reqs : Threshold(r)
    \/ \E r \in Reqs : Respond(r)
    \/ \E r \in Reqs : Except(r)
    \/ root

Spec == Init /\ [][Next]_vars

FeatNext ==
    \/ FeatPowerToDb
    \/ FeatResize
    \/ FeatNormalize

SpecFeat == FeatInit /\ [][FeatNext]_vars

----------------------------------------------------------------------------
\* Properties

Done(r) == pc[r] = "done"

Count(q, x) == Cardinality({i \in DOMAIN q : q[i] = x})

Has(q, x) == Count(q, x) > 0

NotLoaded == ErrorResponse(500, "Model not loaded on server.")

BadAudio == ErrorResponse(400, "Could not process audio file.")

\* C1: with the model not loaded, every request that is answered gets the
\* 500 "Model not loaded on server." response, no request reads its upload,
\* runs the feature extractor or calls a model, and no step changes `model`.
C1_ModelNotLoaded ==
    /\ [](model = None =>
            \A r \in Reqs :
                /\ response[r] \in {NoResp, NotLoaded}
                /\ Done(r) => response[r] = NotLoaded
                /\ steps[r] \in {<<>>, <<"respond">>}
                /\ file_bytes[r] = None
                /\ spectrogram[r] = None
                /\ pred[r] = None)
    /\ [][model' = model]_vars

\* Every slot has answered a readable, decodable upload with the 500
C1_Witness ==
    /\ model = None
    /\ \A r \in Reqs : Done(r) /\ upload[r].readable /\ upload[r].bytes = Tone

\* C2: in a 200 response the label is "HUMAN" exactly when p < 0.5 and
\* "AI-GENERATED" exactly when p >= 0.5, and there is no other label.
C2_Threshold ==
    \A r \in Reqs :
        response[r].status = 200 =>
            /\ Len(pred[r]) = 1
            /\ pred[r][1] \in 0 .. One
            /\ response[r].prediction \in {"HUMAN", "AI-GENERATED"}
            /\ response[r].prediction = "HUMAN" <=> pred[r][1] < Half
            /\ response[r].prediction = "AI-GENERATED" <=> pred[r][1] >= Half

\* p = 0.5 itself has been labelled
C2_Witness ==
    \E r \in Reqs :
        /\ response[r].status = 200
        /\ pred[r] = <<Half>>
        /\ response[r].prediction = "AI-GENERATED"

Dist(p) == IF p < Half THEN Half - p ELSE p - Half

\* C3 as stated: the confidence is the distance of p from 0.5, as a
\* percentage.
C3_ConfidenceIsDistance ==
    \A r \in Reqs :
        response[r].status = 200 =>
            response[r].confidence = round(Dist(pred[r][1]) * Percent, Digits)

\* C3 amended: the confidence is 50 percent plus the distance of p from 0.5
\* as a percentage, rounded to 2 decimals.
C3_ConfidenceIsHalfPlusDistance ==
    \A r \in Reqs :
        response[r].status = 200 =>
            response[r].confidence =
                round((Half + Dist(pred[r][1])) * Percent, Digits)

\* p = 0.26 answered "HUMAN" with confidence 74.00 (its distance is 24)
C3_Witness ==
    \E r \in Reqs :
        /\ response[r].status = 200
        /\ pred[r] = <<26000>>
        /\ response[r].prediction = "HUMAN"
        /\ response[r].confidence = 74 * Percent

\* C4: every value of the grid audio_to_spectrogram returns lies in [0,1],
\* with minimum 0 and maximum 1.
C4_GridInUnitRange ==
    fpc = "return" =>
        /\ \A i \in Rows : \A j \in Rows : InUnit(fOut[i][j])
        /\ \E i \in Rows : \E j \in Rows : fOut[i][j].num = 0
        /\ \E i \in Rows : \E j \in Rows : fOut[i][j].num = fOut[i][j].den

\* C5: the resized grid has N_MELS rows and N_MELS columns and its entry
\* (i, j) is a value of row i of the log-mel spectrogram.
C5_ResizeKeepsMelRow ==
    fpc = "normalize" =>
        /\ DOMAIN fS_DB = Rows
        /\ \A i \in Rows :
            /\ DOMAIN fS_DB[i] = Rows
            /\ \A j \in Rows :
                \E t \in DOMAIN fS[0] : fS_DB[i][j] = power_to_db(fS)[i][t]

\* C6: two answered requests that carry the same upload have the same
\* response (status, error, label and confidence).
C6_Deterministic ==
    \A r1 \in Reqs : \A r2 \in Reqs :
        (Done(r1) /\ Done(r2) /\ upload[r1] = upload[r2]) =>
            response[r1] = response[r2]

\* Two requests with the same audio both got a prediction
C6_Witness ==
    \E r1 \in Reqs : \E r2 \in Reqs :
        /\ r1 # r2
        /\ Done(r1) /\ Done(r2)
        /\ upload[r1] = upload[r2]
        /\ upload[r1].bytes = Chirp
        /\ response[r1].status = 200

Rank(s) ==
    CASE s = "read" -> 1
      [] s = "transform" -> 2
      [] s = "predict" -> 3
      [] s = "threshold" -> 4
      [] s = "respond" -> 5

\* The steps of q are in the handler's order, none twice, none without the
\* one before it (the response may follow any of them)
InOrder(q) ==
    /\ \A i \in DOMAIN q : \A j \in DOMAIN q : i < j => Rank(q[i]) < Rank(q[j])
    /\ Has(q, "transform") => Has(q, "read")
    /\ Has(q, "predict") => Has(q, "transform")
    /\ Has(q, "threshold") => Has(q, "predict")
    /\ (Has(q, "respond") /\ Len(q) > 1) => Has(q, "read")

OneResponse(r) ==
    /\ Count(steps[r], "respond") = (IF Done(r) THEN 1 ELSE 0)
    /\ Done(r) <=> response[r] # NoResp

OkAfterOneOfEach(r) ==
    response[r].status = 200 =>
        /\ Count(steps[r], "transform") = 1
        /\ Count(steps[r], "predict") = 1
        /\ Count(steps[r], "threshold") = 1

\* C7 as stated: with a loaded model every request runs its steps in the
\* fixed order, the feature transform exactly once, the forward pass at most
\* once, and ends with exactly one response; a 200 follows exactly one
\* transform and one model call.
C7_ExactlyOneTransform ==
    model # None =>
        \A r \in Reqs :
            /\ InOrder(steps[r])
            /\ Count(steps[r], "predict") <= 1
            /\ OneResponse(r)
            /\ OkAfterOneOfEach(r)
            /\ Done(r) => Count(steps[r], "transform") = 1

\* C7 amended: the feature transform runs at most once, and exactly once
\* when the upload was read.
C7_AtMostOneTransform ==
    model # None =>
        \A r \in Reqs :
            /\ InOrder(steps[r])
            /\ Count(steps[r], "predict") <= 1
            /\ OneResponse(r)
            /\ OkAfterOneOfEach(r)
            /\ Count(steps[r], "transform") <= 1
            /\ (Done(r) /\ raised[r] # "read failed") =>
                    Count(steps[r], "transform") = 1

\* One request went through every step, another stopped at the read
C7_Witness ==
    /\ \E r \in Reqs :
        steps[r] = <<"read", "transform", "predict", "threshold", "respond">>
    /\ \E r \in Reqs : steps[r] = <<"read", "respond">>

\* C8: GET / always answers with the same message, whatever the model and
\* the requests served, and changes nothing else.
C8_RootStatic ==
    /\ [](rootReply \in {NoReply, RootMessage})
    /\ [][rootReply' # rootReply =>
            (rootReply' = RootMessage /\
             UNCHANGED <<model, running, pc, upload, file_bytes, spectrogram,
                         pred, label, confidence, raised, response, steps>>)]_vars

\* GET / answered after a failed load and after requests answered with 500
C8_Witness ==
    /\ rootReply = RootMessage
    /\ model = None
    /\ \A r \in Reqs : Done(r)

\* C9: with the model loaded, a None from the feature extractor is answered
\* with the 400 and no model call; a 400 has no other cause; without a model
\* an undecodable upload gets the 500 "Model not loaded on server."; an
\* exception raised by the read, the model call or the thresholding is
\* answered with 500 and its text.
C9_ErrorResponses ==
    \A r \in Reqs :
        /\ (model # None /\ Has(steps[r], "transform") /\ spectrogram[r] = None) =>
                (response[r] = BadAudio /\ ~Has(steps[r], "predict"))
        /\ response[r].status = 400 =>
                /\ response[r] = BadAudio
                /\ model # None
                /\ upload[r].readable
                /\ upload[r].bytes = Undecodable
                /\ Has(steps[r], "transform")
        /\ (model = None /\ Done(r)) => response[r] = NotLoaded
        /\ (Done(r) /\ raised[r] # NoExc) =>
                response[r] = ErrorResponse(500, raised[r])
        /\ (model # None /\ Done(r) /\ ~upload[r].readable) =>
                raised[r] = "read failed"
        /\ (model # None /\ Done(r) /\ Has(steps[r], "predict")
                /\ PredictRaises(model)) => raised[r] = "predict failed"
        /\ (Done(r) /\ Has(steps[r], "threshold") /\ Ambiguous(pred[r])) =>
                raised[r] # NoExc

\* A 400 for an undecodable upload next to a 500 carrying an exception text
C9_Witness ==
    /\ \E r \in Reqs : response[r] = BadAudio
    /\ \E r \in Reqs : response[r] = ErrorResponse(500, "predict failed")

\* C10: in a 200 response the confidence lies in [50, 100] percent, equals
\* (1 - p) * 100 for "HUMAN" and p * 100 for "AI-GENERATED", rounded to 2
\* decimals, and the label is the class with the larger share.
C10_ConfidenceRange ==
    \A r \in Reqs :
        response[r].status = 200 =>
            LET p == pred[r][1]
                c == response[r].confidence
            IN  /\ c >= 50 * Percent
                /\ c <= 100 * Percent
                /\ response[r].prediction = "HUMAN" =>
                        (c = round((One - p) * Percent, Digits) /\ One - p >= p)
                /\ response[r].prediction = "AI-GENERATED" =>
                        (c = round(p * Percent, Digits) /\ p >= One - p)

\* The low end of the range, 50.00 for "HUMAN" just under the threshold,
\* next to an "AI-GENERATED" response above it
C10_Witness ==
    /\ \E r \in Reqs :
        /\ response[r].status = 200
        /\ response[r].prediction = "HUMAN"
        /\ response[r].confidence = 50 * Percent
    /\ \E r \in Reqs :
        /\ response[r].status = 200
        /\ response[r].prediction = "AI-GENERATED"
        /\ response[r].confidence > 50 * Percent

====
